---- MODULE Spec2Model ----
(***************************************************************************)
(* A model of gryphon/aws_classes.py: the paginator (list_all_children),   *)
(* the memoised definition resolver (get_task_definition), the catalog     *)
(* builder (get_task_def_list) and the topology assembler                  *)
(* (Cluster.__init__), run against a bounded remote control plane.         *)
(*                                                                         *)
(* Conventions.  Python's None / "key absent" is the empty tuple <<>> and  *)
(* a present value x is <<x>>.  An insertion-ordered dict is a sequence of *)
(* [k, v] entries.  Objects are referred to by their identity (task arn,   *)
(* container arn, task-definition arn, ec2 id) and live in stores, so an   *)
(* attribute assignment is an update of the store.  Names that the code    *)
(* orders as strings (family names, Name tags) are naturals, whose order   *)
(* stands for the lexicographic one.                                       *)
(***************************************************************************)
EXTENDS Integers, Sequences, FiniteSets, TLC

(* ---- bounds of the model ---- *)
MaxTasks == 2
PageLen == 2
MaxPages == 3
MaxPageLen == 2
MaxCapacity == 3
MaxBatchChunks == 2
BatchPageLen == 100
MaxRevision == 7
MaxResolves == 4
MaxStamp == 2

(* ---- program constants ---- *)
ChunkSize == 100
TopRevisions == 5

(* ---- value universes of the remote control plane ---- *)
FamilyNames == {1, 2}
Revisions == {1, 2}
HostArns == {1, 2}
NameTags == {1, 2}

None == <<>>
Some(x) == <<x>>

Min(a, b) == IF a < b THEN a ELSE b

RECURSIVE Flatten(_)
Flatten(ss) == IF ss = <<>> THEN <<>> ELSE Head(ss) \o Flatten(Tail(ss))

Range(s) == {s[i] : i \in 1..Len(s)}

(* ---- insertion-ordered dict ---- *)
DictKeys(d) == [i \in 1..Len(d) |-> d[i].k]
DictValues(d) == [i \in 1..Len(d) |-> d[i].v]
DictHas(d, key) == \E i \in 1..Len(d) : d[i].k = key
DictIdx(d, key) == CHOOSE i \in 1..Len(d) : d[i].k = key
DictGet(d, key) == d[DictIdx(d, key)].v
DictPut(d, key, val) ==
    IF DictHas(d, key) THEN [d EXCEPT ![DictIdx(d, key)].v = val]
    ELSE Append(d, [k |-> key, v |-> val])

(* sorted(xs, key=...): a stable sort of [key, val] pairs, ascending by key *)
RECURSIVE SortBuckets(_, _)
SortBuckets(pairs, keys) ==
    IF keys = {} THEN <<>>
    ELSE LET m == CHOOSE a \in keys : \A b \in keys : a <= b
             IsM(p) == p.key = m
         IN  SelectSeq(pairs, IsM) \o SortBuckets(pairs, keys \ {m})

Sorted(pairs) ==
    LET s == SortBuckets(pairs, {pairs[i].key : i \in 1..Len(pairs)})
    IN  [i \in 1..Len(s) |-> s[i].val]

(* xs.sort(reverse=True) on (revision, arn) tuples with distinct revisions *)
RECURSIVE SortBucketsDesc(_, _)
SortBucketsDesc(pairs, keys) ==
    IF keys = {} THEN <<>>
    ELSE LET m == CHOOSE a \in keys : \A b \in keys : a >= b
             IsM(p) == p.key = m
         IN  SelectSeq(pairs, IsM) \o SortBucketsDesc(pairs, keys \ {m})

SortedReverse(pairs) ==
    LET s == SortBucketsDesc(pairs, {pairs[i].key : i \in 1..Len(pairs)})
    IN  [i \in 1..Len(s) |-> s[i].val]

(* ---- task-definition identifiers: arn:...:task-definition/<family>:<digits> ---- *)
RECURSIVE Digits(_)
Digits(n) == IF n < 10 THEN <<n>> ELSE Append(Digits(n \div 10), n % 10)

RECURSIVE ToInt(_)
ToInt(ds) == IF ds = <<>> THEN 0 ELSE 10 * ToInt(SubSeq(ds, 1, Len(ds) - 1)) + ds[Len(ds)]

TaskDefArn(f, r) == [family |-> f, revision |-> Digits(r)]

(* range(0, len(lst) - n + 1, n): the short last chunk is lost *)
ChunksWithoutTail(lst, n) ==
    [c \in 1..(Len(lst) \div n) |-> SubSeq(lst, (c - 1) * n + 1, c * n)]

(* ---- lst[i:i+n] for i in range(0, len(lst), n) ---- *)
Chunks(lst, n) ==
    [c \in 1..((Len(lst) + n - 1) \div n) |->
        SubSeq(lst, (c - 1) * n + 1, Min(c * n, Len(lst)))]

(* ---- the remote listing endpoints: pages chained by nextToken ---- *)
(* A token <<k>>, k > 0, names page k; <<0>> is the empty string; <<>> is *)
(* a response without the nextToken key.                                   *)
PagesOf(lst, size) ==
    IF lst = <<>> THEN << [children |-> <<>>, nextToken |-> None] >>
    ELSE LET count == (Len(lst) + size - 1) \div size
         IN  [i \in 1..count |->
                [children |-> SubSeq(lst, (i - 1) * size + 1, Min(i * size, Len(lst))),
                 nextToken |-> IF i < count THEN Some(i + 1) ELSE None]]

VARIABLES remote, cache, calls, op, pc, pg, cl, self, ret, failure

vars == <<remote, cache, calls, op, pc, pg, cl, self, ret, failure>>

Truthy(t) == t # None /\ t[1] # 0

(* one call of a boto list function, with or without the nextToken keyword *)
ListResponse(function, token) ==
    remote.pages[function][IF token = None THEN 1 ELSE token[1]]

NoFrame == [function |-> "", next_token |-> None, children |-> <<>>, to |-> ""]
NoSelf == [name |-> None, has_collections |-> FALSE,
           instances |-> <<>>, tasks |-> <<>>, task_families |-> <<>>]

(* list_all_children: the call of innerFn up to the first response *)
PageFirst ==
    /\ pc = "page_first"
    /\ LET first_response == ListResponse(pg.function, None)
       IN  /\ calls' = Append(calls, [api |-> pg.function, nextToken |-> None, keys |-> <<>>, ok |-> TRUE])
           /\ pg' = [pg EXCEPT !.children = first_response.children,
                               !.next_token = first_response.nextToken]
    /\ pc' = "page_loop"
    /\ UNCHANGED <<remote, cache, op, cl, self, ret, failure>>

(* the loop keeping only the page it has just read *)
PageNextForgetful ==
    /\ pc = "page_loop"
    /\ Truthy(pg.next_token)
    /\ LET response == ListResponse(pg.function, pg.next_token)
       IN  /\ calls' = Append(calls, [api |-> pg.function, nextToken |-> pg.next_token,
                                      keys |-> <<>>, ok |-> TRUE])
           /\ pg' = [pg EXCEPT !.children = response.children,
                               !.next_token = response.nextToken]
    /\ UNCHANGED <<remote, cache, op, pc, cl, self, ret, failure>>

(* one iteration of `while next_token` *)
PageNext ==
    /\ pc = "page_loop"
    /\ Truthy(pg.next_token)
    /\ LET response == ListResponse(pg.function, pg.next_token)
       IN  /\ calls' = Append(calls, [api |-> pg.function, nextToken |-> pg.next_token,
                                      keys |-> <<>>, ok |-> TRUE])
           /\ pg' = [pg EXCEPT !.children = pg.children \o response.children,
                               !.next_token = response.nextToken]
    /\ UNCHANGED <<remote, cache, op, pc, cl, self, ret, failure>>

(* the loop's exit: return list(innerFn()) to the caller's continuation *)
PageReturn ==
    /\ pc = "page_loop"
    /\ ~Truthy(pg.next_token)
    /\ ret' = pg.children
    /\ pc' = pg.to
    /\ UNCHANGED <<remote, cache, calls, op, pg, cl, self, failure>>

(* a direct call list_all_children(ecs.list_tasks, 'taskArns', ...) *)
CallListAllChildren ==
    /\ pc = "idle" /\ op = "list_all_children"
    /\ pg' = [function |-> "list_tasks", next_token |-> None, children |-> <<>>,
              to |-> "returned"]
    /\ pc' = "page_first"
    /\ UNCHANGED <<remote, cache, calls, op, cl, self, ret, failure>>

(* ---- get_task_definition under functools.lru_cache(maxsize=None) ---- *)
(* what describe_task_definition answers for arn when it succeeds; stamp *)
(* tells apart two answers of the remote for the same identifier         *)
ContainerNamesOf(family) == IF family = 1 THEN <<"app", "sidecar">> ELSE <<"app">>

TaskDefinitionDoc(arn, stamp) ==
    [taskDefinitionArn |-> arn,
     family |-> arn.family,
     revision |-> ToInt(arn.revision),
     containerDefinitions |->
        [i \in 1..Len(ContainerNamesOf(arn.family)) |->
            [name |-> ContainerNamesOf(arn.family)[i]]],
     stamp |-> stamp]

(* the function without its lru_cache decorator *)
get_task_definition_uncached(lru, arn, outcome) ==
    [cache |-> lru,
     calls |-> << [api |-> "describe_task_definition", nextToken |-> None,
                   keys |-> <<arn>>, ok |-> outcome # None] >>,
     value |-> IF outcome = None THEN None ELSE Some(TaskDefinitionDoc(arn, outcome[1]))]

(* outcome: None when the remote lookup fails, <<stamp>> when it answers. *)
(* Result: the cache afterwards, the remote calls issued, the value       *)
(* returned (None when the exception propagates).                         *)
get_task_definition(lru, arn, outcome) ==
    IF DictHas(lru, arn)
    THEN [cache |-> lru, calls |-> <<>>, value |-> Some(DictGet(lru, arn))]
    ELSE LET call == [api |-> "describe_task_definition", nextToken |-> None,
                      keys |-> <<arn>>, ok |-> outcome # None]
         IN  IF outcome = None
             THEN [cache |-> lru, calls |-> <<call>>, value |-> None]
             ELSE LET doc == TaskDefinitionDoc(arn, outcome[1])
                  IN  [cache |-> DictPut(lru, arn, doc), calls |-> <<call>>,
                       value |-> Some(doc)]

(* one call get_task_definition(arn) made by a caller of the module; ret *)
(* collects what the successive calls returned (None: the call raised)   *)
CallGetTaskDefinition ==
    /\ pc = "idle" /\ op = "get_task_definition"
    /\ Len(ret) < MaxResolves
    /\ \E arn \in remote.arns, outcome \in {None} \cup {Some(v) : v \in 1..MaxStamp} :
          LET r == get_task_definition(cache, arn, outcome)
          IN  /\ cache' = r.cache
              /\ calls' = calls \o r.calls
              /\ ret' = Append(ret, [arn |-> arn, value |-> r.value])
              /\ failure' = IF r.value = None THEN "TransportError" ELSE ""
    /\ UNCHANGED <<remote, op, pc, pg, cl, self>>

(* ---- Cluster.__init__ ---- *)
NoLocals ==
    [task_keys |-> <<>>, task_keys_chunks |-> <<>>, chunk |-> 1, task_info |-> <<>>,
     all_container_instances |-> <<>>, cont_inst_arn |-> <<>>, tasks |-> <<>>,
     containers |-> <<>>, task_dict |-> <<>>, task_defs |-> <<>>, families |-> <<>>,
     task_families |-> <<>>, ec2_instances |-> <<>>, ec2_id_to_ci |-> <<>>,
     instances |-> <<>>]

(* lines 169-181: the locals, and the listing of the cluster's tasks *)
ClusterInit ==
    /\ pc = "idle" /\ op = "Cluster"
    /\ self' = [self EXCEPT !.name = Some(1)]
    /\ cl' = NoLocals
    /\ pg' = [function |-> "list_tasks", next_token |-> None, children |-> <<>>,
              to |-> "after_list_tasks"]
    /\ pc' = "page_first"
    /\ UNCHANGED <<remote, cache, calls, op, ret, failure>>

(* lines 181-186: `if not task_keys: return`, else the chunks *)
AfterListTasks ==
    /\ pc = "after_list_tasks"
    /\ IF ret = <<>>
       THEN /\ pc' = "done"
            /\ cl' = cl
       ELSE /\ pc' = "describe_tasks"
            /\ cl' = [cl EXCEPT !.task_keys = ret,
                                !.task_keys_chunks = Chunks(ret, ChunkSize),
                                !.chunk = 1,
                                !.task_info = <<>>]
    /\ UNCHANGED <<remote, cache, calls, op, pg, self, ret, failure>>

(* lines 187-188: one iteration, one describe_tasks call *)
DescribeTasks ==
    /\ pc = "describe_tasks"
    /\ cl.chunk <= Len(cl.task_keys_chunks)
    /\ LET task_keys == cl.task_keys_chunks[cl.chunk]
       IN  /\ calls' = Append(calls, [api |-> "describe_tasks", nextToken |-> None,
                                      keys |-> task_keys, ok |-> TRUE])
           /\ cl' = [cl EXCEPT !.task_keys = task_keys,
                               !.chunk = cl.chunk + 1,
                               !.task_info = cl.task_info \o
                                   [j \in 1..Len(task_keys) |-> remote.tasks[task_keys[j]]]]
    /\ UNCHANGED <<remote, cache, op, pc, pg, self, ret, failure>>

(* lines 189-195: after the last chunk, the listing of the host registrations *)
ListContainerInstances ==
    /\ pc = "describe_tasks"
    /\ cl.chunk > Len(cl.task_keys_chunks)
    /\ pg' = [function |-> "list_container_instances", next_token |-> None,
              children |-> <<>>, to |-> "after_list_ci"]
    /\ pc' = "page_first"
    /\ UNCHANGED <<remote, cache, calls, op, cl, self, ret, failure>>

(* lines 200-215, one task record.  st: cont_inst_arn, tasks, task_dict,  *)
(* containers, error.  task['containerInstanceArn'] of a record without   *)
(* the key raises KeyError.                                               *)
TaskStep(st, task) ==
    IF task.containerInstanceArn = None
    THEN [st EXCEPT !.error = "KeyError"]
    ELSE LET task_arn == task.taskArn
             ci == task.containerInstanceArn[1]
             td == task.taskDefinitionArn
             on_ci == IF DictHas(st.cont_inst_arn, ci)
                      THEN DictGet(st.cont_inst_arn, ci) ELSE <<>>
             of_td == IF DictHas(st.task_dict, td)
                      THEN DictGet(st.task_dict, td) ELSE <<>>
             conts == [i \in 1..Len(task.containers) |->
                          [arn |-> task.containers[i].containerArn,
                           name |-> task.containers[i].name,
                           task |-> task_arn,
                           container_def |-> None]]
             RECURSIVE PutAll(_, _)
             PutAll(d, cs) == IF cs = <<>> THEN d
                              ELSE PutAll(DictPut(d, Head(cs).arn, Head(cs)), Tail(cs))
         IN  [st EXCEPT
                !.cont_inst_arn = DictPut(st.cont_inst_arn, ci, Append(on_ci, task_arn)),
                !.tasks = DictPut(st.tasks, task_arn,
                             [arn |-> task_arn, definition |-> None,
                              containers |-> [i \in 1..Len(conts) |-> conts[i].arn],
                              instance |-> None]),
                !.task_dict = DictPut(st.task_dict, td, Append(of_td, task_arn)),
                !.containers = PutAll(st.containers, conts)]

(* `for task in task_info`, left to right, stopping at the first exception *)
(* (the list is split in halves only to keep the evaluation shallow)       *)
RECURSIVE TaskLoop(_, _)
TaskLoop(st, infos) ==
    IF infos = <<>> \/ st.error # "" THEN st
    ELSE IF Len(infos) = 1 THEN TaskStep(st, infos[1])
    ELSE LET half == Len(infos) \div 2
             left == TaskLoop(st, SubSeq(infos, 1, half))
         IN  TaskLoop(left, SubSeq(infos, half + 1, Len(infos)))

(* lines 192-215: seed cont_inst_arn with the listed registrations, then *)
(* build the Task and Container objects                                   *)
BuildTasks ==
    /\ pc = "after_list_ci"
    /\ LET seeded == [i \in 1..Len(ret) |-> [k |-> ret[i], v |-> <<>>]]
           st == TaskLoop([cont_inst_arn |-> seeded, tasks |-> <<>>, task_dict |-> <<>>,
                           containers |-> <<>>, error |-> ""], cl.task_info)
       IN  IF st.error # ""
           THEN /\ pc' = "failed"
                /\ failure' = st.error
                /\ cl' = cl
           ELSE /\ pc' = "definitions"
                /\ failure' = failure
                /\ cl' = [cl EXCEPT !.all_container_instances = ret,
                                    !.cont_inst_arn = st.cont_inst_arn,
                                    !.tasks = st.tasks,
                                    !.task_dict = st.task_dict,
                                    !.containers = st.containers]
    /\ UNCHANGED <<remote, cache, calls, op, pg, self, ret>>

(* lines 231-245, the k-th container definition of the document: it is  *)
(* linked to every Container of the cluster that bears its name.  (The    *)
(* local dict container_defs of line 242 is written and never read.)      *)
ContainerDefStep(st, task_def_arn, cont_def) ==
    LET container_def_name == cont_def.name
        HasName(cont) == cont.name = container_def_name
        conts == SelectSeq(DictValues(st.containers), HasName)
        sofar == IF DictHas(st.cont_defs_by_task_defs, task_def_arn)
                 THEN DictGet(st.cont_defs_by_task_defs, task_def_arn) ELSE <<>>
        temp_container == [name |-> container_def_name,
                           task_definition |-> task_def_arn,
                           containers |-> [i \in 1..Len(conts) |-> conts[i].arn]]
        ref == [task_definition |-> task_def_arn, index |-> Len(sofar) + 1]
    IN  [st EXCEPT
           !.cont_defs_by_task_defs =
               DictPut(st.cont_defs_by_task_defs, task_def_arn, Append(sofar, temp_container)),
           !.containers =
               [i \in 1..Len(st.containers) |->
                   IF HasName(st.containers[i].v)
                   THEN [st.containers[i] EXCEPT !.v.container_def = Some(ref)]
                   ELSE st.containers[i]]]

RECURSIVE ContainerDefLoop(_, _, _)
ContainerDefLoop(st, task_def_arn, cont_defs) ==
    IF cont_defs = <<>> THEN st
    ELSE ContainerDefLoop(ContainerDefStep(st, task_def_arn, Head(cont_defs)),
                          task_def_arn, Tail(cont_defs))

(* lines 220-245, one key of task_dict *)
DefinitionStep(st, key) ==
    LET r == get_task_definition(st.cache, key, Some(1))
        definition == r.value[1]
        task_def_arn == definition.taskDefinitionArn
        group == DictGet(st.task_dict, task_def_arn)
        members == Range(group)
        fam == IF DictHas(st.families, definition.family)
               THEN DictGet(st.families, definition.family) ELSE <<>>
        linked == [st EXCEPT
            !.cache = r.cache,
            !.calls = st.calls \o r.calls,
            !.task_defs = DictPut(st.task_defs, task_def_arn,
                             [arn |-> task_def_arn, family |-> definition.family,
                              revision |-> definition.revision, tasks |-> group,
                              container_defs |-> <<>>]),
            !.families = DictPut(st.families, definition.family, Append(fam, task_def_arn)),
            !.tasks = [i \in 1..Len(st.tasks) |->
                          IF st.tasks[i].k \in members
                          THEN [st.tasks[i] EXCEPT !.v.definition = Some(task_def_arn)]
                          ELSE st.tasks[i]]]
    IN  ContainerDefLoop(linked, task_def_arn, definition.containerDefinitions)

RECURSIVE DefinitionLoop(_, _)
DefinitionLoop(st, keys) ==
    IF keys = <<>> THEN st ELSE DefinitionLoop(DefinitionStep(st, Head(keys)), Tail(keys))

(* lines 250-251: TaskFamily(name=name, task_defs=task_defs) *)
TaskFamilyOf(name, task_defs) == [name |-> name, task_defs |-> task_defs]

(* lines 217-253: resolve each distinct task definition, link tasks,     *)
(* container definitions and families.  Line 253 replaces the family     *)
(* name held by a TaskDefinition by the TaskFamily of that name; both    *)
(* are the name here.                                                    *)
ResolveDefinitions ==
    /\ pc = "definitions"
    /\ LET st == DefinitionLoop([cache |-> cache, calls |-> calls, task_dict |-> cl.task_dict,
                                 task_defs |-> <<>>, families |-> <<>>, tasks |-> cl.tasks,
                                 containers |-> cl.containers,
                                 cont_defs_by_task_defs |-> <<>>],
                                DictKeys(cl.task_dict))
           with_defs == [i \in 1..Len(st.task_defs) |->
                            IF DictHas(st.cont_defs_by_task_defs, st.task_defs[i].k)
                            THEN [st.task_defs[i] EXCEPT !.v.container_defs =
                                     DictGet(st.cont_defs_by_task_defs, st.task_defs[i].k)]
                            ELSE st.task_defs[i]]
           task_families == [i \in 1..Len(st.families) |->
                                [k |-> st.families[i].k,
                                 v |-> TaskFamilyOf(st.families[i].k, st.families[i].v)]]
       IN  /\ cache' = st.cache
           /\ calls' = st.calls
           /\ cl' = [cl EXCEPT !.task_defs = with_defs,
                               !.families = st.families,
                               !.task_families = task_families,
                               !.tasks = st.tasks,
                               !.containers = st.containers]
    /\ pc' = "hosts"
    /\ UNCHANGED <<remote, op, pg, self, ret, failure>>

(* ---- the remote describe calls for hosts ---- *)
ResourceList(cap) ==
    << [name |-> "CPU", type |-> "INTEGER", integerValue |-> cap.CPU,
        doubleValue |-> 0, longValue |-> 0],
       [name |-> "MEMORY", type |-> "INTEGER", integerValue |-> cap.MEMORY,
        doubleValue |-> 0, longValue |-> 0] >>

(* records of the registrations the control plane knows, in request order *)
DescribeContainerInstancesResponse(keys) ==
    LET Known(arn) == remote.hosts[arn].registered
        known == SelectSeq(keys, Known)
    IN  [i \in 1..Len(known) |->
            [containerInstanceArn |-> known[i],
             ec2InstanceId |-> remote.hosts[known[i]].ec2InstanceId,
             remainingResources |-> ResourceList(remote.hosts[known[i]].remaining),
             registeredResources |-> ResourceList(remote.hosts[known[i]].registered_cap)]]

(* the compute hosts among ids, in the order the service returns them *)
Ec2InstancesFilter(ids) ==
    LET Asked(inst) == inst.instance_id \in Range(ids)
    IN  SelectSeq(remote.ec2, Asked)

(* lines 255-270: the three describe calls and their lookup tables.  The *)
(* autoscaling answer only fills Instance.auto_scaling_group and         *)
(* life_cycle_state, which are left out.                                 *)
DescribeHosts ==
    /\ pc = "hosts"
    /\ LET keys == DictKeys(cl.cont_inst_arn)
           container_instances == DescribeContainerInstancesResponse(keys)
           RECURSIVE ById(_, _)
           ById(d, cs) == IF cs = <<>> THEN d
                          ELSE ById(DictPut(d, Head(cs).ec2InstanceId, Head(cs)), Tail(cs))
           ec2_id_to_ci == ById(<<>>, container_instances)
           ids == DictKeys(ec2_id_to_ci)
       IN  /\ calls' = calls \o
                << [api |-> "describe_container_instances", nextToken |-> None,
                    keys |-> keys, ok |-> TRUE],
                   [api |-> "describe_auto_scaling_instances", nextToken |-> None,
                    keys |-> ids, ok |-> TRUE],
                   [api |-> "ec2.instances.filter", nextToken |-> None,
                    keys |-> ids, ok |-> TRUE] >>
           /\ cl' = [cl EXCEPT !.ec2_id_to_ci = ec2_id_to_ci,
                               !.ec2_instances = Ec2InstancesFilter(ids)]
    /\ pc' = "instances"
    /\ UNCHANGED <<remote, cache, op, pg, self, ret, failure>>

(* ---- Instance.__init__ ---- *)
ResourceKeys == {"CPU", "MEMORY"}

extract_resource(resources_list, name) ==
    LET Named(r) == r.name = name
        resource == SelectSeq(resources_list, Named)[1]
    IN  CASE resource.type = "INTEGER" -> resource.integerValue
          [] resource.type = "DOUBLE" -> resource.doubleValue
          [] resource.type = "LONG" -> resource.longValue

RECURSIVE Gcd(_, _)
Gcd(a, b) == IF b = 0 THEN a ELSE Gcd(b, a % b)

(* (used / registered) * 100, registered # 0, as an exact fraction in lowest terms *)
PercentageUsed(used, registered) ==
    LET g == Gcd(used * 100, registered)
    IN  [num |-> (used * 100) \div g, den |-> registered \div g]

(* lines 315-358.  The dict comprehension of line 355 divides by          *)
(* registered_resources[key]; a zero there raises ZeroDivisionError.      *)
InstanceOf(ec2_instance, container_instance, tasks) ==
    LET remaining == [key \in ResourceKeys |->
                         extract_resource(container_instance.remainingResources, key)]
        registered == [key \in ResourceKeys |->
                          extract_resource(container_instance.registeredResources, key)]
        used == [key \in ResourceKeys |-> registered[key] - remaining[key]]
    IN  IF \E key \in ResourceKeys : registered[key] = 0
        THEN [error |-> "ZeroDivisionError"]
        ELSE [error |-> "",
              id |-> ec2_instance.instance_id,
              container_instance_arn |-> container_instance.containerInstanceArn,
              tasks |-> tasks,
              name |-> ec2_instance.name,
              remaining_resources |-> remaining,
              registered_resources |-> registered,
              used_resources |-> used,
              percentage_resources_used |->
                  [key \in ResourceKeys |-> PercentageUsed(used[key], registered[key])]]

(* x.definition.family.name of a Task *)
FamilyNameOfTask(locals, task_arn) ==
    DictGet(locals.task_defs, DictGet(locals.tasks, task_arn).definition[1]).family

ByFamilyName(locals, task_arns) ==
    Sorted([i \in 1..Len(task_arns) |->
               [key |-> FamilyNameOfTask(locals, task_arns[i]), val |-> task_arns[i]]])

(* lines 272-287: one compute host *)
InstanceStep(st, locals, instance) ==
    LET ec2_id == instance.instance_id
        container_instance == DictGet(locals.ec2_id_to_ci, ec2_id)
        ci_arn == container_instance.containerInstanceArn
        task_list == DictGet(locals.cont_inst_arn, ci_arn)
        built == InstanceOf(instance, container_instance, ByFamilyName(locals, task_list))
    IN  IF built.error # ""
        THEN [st EXCEPT !.error = built.error]
        ELSE [st EXCEPT !.instances = DictPut(st.instances, ec2_id, built)]

RECURSIVE InstanceLoop(_, _, _)
InstanceLoop(st, locals, insts) ==
    IF insts = <<>> \/ st.error # "" THEN st
    ELSE InstanceLoop(InstanceStep(st, locals, Head(insts)), locals, Tail(insts))

(* lines 292-294 *)
SortInstances(instances) ==
    Sorted([i \in 1..Len(instances) |-> [key |-> instances[i].v.name, val |-> instances[i].k]])

(* tasks.values() published as it is *)
UnsortedTasks(locals) == DictKeys(locals.tasks)

SortTasks(locals) == ByFamilyName(locals, DictKeys(locals.tasks))

SortFamilies(task_families) ==
    Sorted([i \in 1..Len(task_families) |->
               [key |-> task_families[i].v.name, val |-> task_families[i].k]])

(* lines 289-291: task.instance = inst for every task of every Instance, *)
(* in the order of instances.values(); a later Instance overwrites        *)
BackLink(tasks, instances) ==
    LET members == [i \in 1..Len(instances) |-> Range(instances[i].v.tasks)]
        InstanceOfTask(task_arn) ==
            LET hosts == {i \in 1..Len(instances) : task_arn \in members[i]}
            IN  IF hosts = {} THEN None
                ELSE Some(instances[CHOOSE i \in hosts : \A j \in hosts : j <= i].k)
    IN  [i \in 1..Len(tasks) |-> [tasks[i] EXCEPT !.v.instance = InstanceOfTask(tasks[i].k)]]

(* lines 272-294: build the Instances, back-link their tasks, publish the *)
(* three sorted collections                                               *)
Assemble(locals) ==
    LET st == InstanceLoop([instances |-> <<>>, error |-> ""], locals, locals.ec2_instances)
    IN  IF st.error # ""
        THEN [error |-> st.error]
        ELSE [error |-> "",
              locals |-> [locals EXCEPT !.instances = st.instances,
                                        !.tasks = BackLink(locals.tasks, st.instances)],
              instances |-> SortInstances(st.instances),
              tasks |-> SortTasks(locals),
              task_families |-> SortFamilies(locals.task_families)]

BuildInstances ==
    /\ pc = "instances"
    /\ LET built == Assemble(cl)
       IN  IF built.error # ""
           THEN /\ pc' = "failed"
                /\ failure' = built.error
                /\ cl' = cl
                /\ self' = self
           ELSE /\ pc' = "done"
                /\ failure' = failure
                /\ cl' = built.locals
                /\ self' = [self EXCEPT !.has_collections = TRUE,
                                        !.instances = built.instances,
                                        !.tasks = built.tasks,
                                        !.task_families = built.task_families]
    /\ UNCHANGED <<remote, cache, calls, op, pg, ret>>

(* ---- get_task_def_list ---- *)
(* re.match(r'arn:.*:task-definition/(.+):(\d+)', arn).groups() *)
parse_task_def_arn(arn) == <<arn.family, arn.revision>>

(* the sort without reverse=True: the 5 oldest revisions are kept *)
TopOfFamilyOldest(temp_list) ==
    LET sorted == Sorted([i \in 1..Len(temp_list) |->
                             [key |-> temp_list[i][1], val |-> temp_list[i]]])
        top_5 == SubSeq(sorted, 1, Min(TopRevisions, Len(sorted)))
    IN  [i \in 1..Len(top_5) |-> top_5[i][2]]

(* lines 100-105, one family: sort descending by revision, keep the first 5 *)
TopOfFamily(temp_list) ==
    LET sorted == SortedReverse([i \in 1..Len(temp_list) |->
                                    [key |-> temp_list[i][1], val |-> temp_list[i]]])
        top_5 == SubSeq(sorted, 1, Min(TopRevisions, Len(sorted)))
    IN  [i \in 1..Len(top_5) |-> top_5[i][2]]

(* lines 94-105: group the listed arns by family, then the arns to resolve *)
RECURSIVE GroupByFamily(_, _)
GroupByFamily(fam_to_rev, lst_raw) ==
    IF lst_raw = <<>> THEN fam_to_rev
    ELSE LET arn == Head(lst_raw)
             family == parse_task_def_arn(arn)[1]
             revision == parse_task_def_arn(arn)[2]
             sofar == IF DictHas(fam_to_rev, family) THEN DictGet(fam_to_rev, family)
                      ELSE <<>>
         IN  GroupByFamily(DictPut(fam_to_rev, family,
                                   Append(sofar, <<ToInt(revision), arn>>)),
                           Tail(lst_raw))

ArnsToResolve(lst_raw) ==
    LET fam_to_rev == GroupByFamily(<<>>, lst_raw)
    IN  Flatten([i \in 1..Len(fam_to_rev) |-> TopOfFamily(fam_to_rev[i].v)])

(* lines 107-121, one arn of lst *)
CatalogStep(st, arn) ==
    LET r == get_task_definition(st.cache, arn, Some(1))
        definition == r.value[1]
        task_fam == definition.family
        temp_task_def == [arn |-> definition.taskDefinitionArn, family |-> task_fam,
                          revision |-> definition.revision,
                          container_defs |->
                              [i \in 1..Len(definition.containerDefinitions) |->
                                  [name |-> definition.containerDefinitions[i].name,
                                   task_definition |-> definition.taskDefinitionArn]]]
        sofar == IF DictHas(st.task_fam_list, task_fam)
                 THEN DictGet(st.task_fam_list, task_fam) ELSE <<>>
    IN  [cache |-> r.cache, calls |-> st.calls \o r.calls,
         task_fam_list |-> DictPut(st.task_fam_list, task_fam, Append(sofar, temp_task_def))]

RECURSIVE CatalogLoop(_, _)
CatalogLoop(st, lst) ==
    IF lst = <<>> THEN st ELSE CatalogLoop(CatalogStep(st, Head(lst)), Tail(lst))

(* line 125: sorted(task_fam_list[fam], key=lambda x: x.revision) *)
SortByRevision(task_defs) ==
    Sorted([i \in 1..Len(task_defs) |-> [key |-> task_defs[i].revision, val |-> task_defs[i]]])

(* line 126: sorted(task_fams, key=lambda x: x.name) *)
SortByName(task_fams) ==
    Sorted([i \in 1..Len(task_fams) |-> [key |-> task_fams[i].name, val |-> task_fams[i]]])

(* lines 84-88: the account-wide listing *)
CallGetTaskDefList ==
    /\ pc = "idle" /\ op = "get_task_def_list"
    /\ pg' = [function |-> "list_task_definitions", next_token |-> None,
              children |-> <<>>, to |-> "after_list_defs"]
    /\ pc' = "page_first"
    /\ UNCHANGED <<remote, cache, calls, op, cl, self, ret, failure>>

(* lines 90-126 *)
BuildCatalog ==
    /\ pc = "after_list_defs"
    /\ LET st == CatalogLoop([cache |-> cache, calls |-> calls, task_fam_list |-> <<>>],
                             ArnsToResolve(ret))
           task_fams == [i \in 1..Len(st.task_fam_list) |->
                            TaskFamilyOf(st.task_fam_list[i].k,
                                         SortByRevision(st.task_fam_list[i].v))]
       IN  /\ cache' = st.cache
           /\ calls' = st.calls
           /\ ret' = SortByName(task_fams)
    /\ pc' = "returned"
    /\ UNCHANGED <<remote, op, pg, cl, self, failure>>

(* ---- scenarios ---- *)
EmptyPages == << [children |-> <<>>, nextToken |-> None] >>

Capacity(cpu, memory) == [CPU |-> cpu, MEMORY |-> memory]

NoHost == [registered |-> FALSE, ec2InstanceId |-> 0, name |-> 0,
           remaining |-> Capacity(0, 0), registered_cap |-> Capacity(0, 0)]

NoRemote == [pages |-> [list_tasks |-> EmptyPages,
                        list_container_instances |-> EmptyPages,
                        list_task_definitions |-> EmptyPages],
             tasks |-> <<>>,
             hosts |-> [a \in HostArns |-> NoHost],
             ec2 |-> <<>>,
             arns |-> {}]

(* a cluster: shapes[i] is task i's host registration (None: the record  *)
(* has no containerInstanceArn) and task definition; a task runs one     *)
(* container per container definition of its task definition             *)
ClusterRemote(shapes, pageLen, hosts, order) ==
    LET Registered(a) == hosts[a].registered
        listed == SelectSeq(order, Registered)
        RECURSIVE Ascending(_)
        Ascending(S) == IF S = {} THEN <<>>
                        ELSE LET m == CHOOSE a \in S : \A b \in S : a <= b
                             IN  <<m>> \o Ascending(S \ {m})
    IN  [pages |-> [list_tasks |-> PagesOf([i \in 1..Len(shapes) |-> i], pageLen),
                    list_container_instances |->
                        PagesOf(Ascending({a \in HostArns : Registered(a)}), pageLen),
                    list_task_definitions |-> EmptyPages],
         tasks |-> [i \in 1..Len(shapes) |->
                      [taskArn |-> i,
                       containerInstanceArn |-> shapes[i].ci,
                       taskDefinitionArn |-> shapes[i].td,
                       containers |->
                          [j \in 1..Len(ContainerNamesOf(shapes[i].td.family)) |->
                              [containerArn |-> 10 * i + j,
                               name |-> ContainerNamesOf(shapes[i].td.family)[j]]]]],
         hosts |-> hosts,
         ec2 |-> [i \in 1..Len(listed) |->
                    [instance_id |-> hosts[listed[i]].ec2InstanceId,
                     name |-> hosts[listed[i]].name]],
         arns |-> {}]

Host(a, registered, name, remaining, registered_cap) ==
    [registered |-> registered, ec2InstanceId |-> 10 + a, name |-> name,
     remaining |-> remaining, registered_cap |-> registered_cap]

TaskDefArns == {TaskDefArn(f, r) : f \in FamilyNames, r \in Revisions}

TaskShapes == [ci : {None} \cup {Some(a) : a \in HostArns}, td : TaskDefArns]

Quiet ==
    /\ cache = <<>>
    /\ calls = <<>>
    /\ pc = "idle"
    /\ pg = NoFrame
    /\ cl = NoLocals
    /\ self = NoSelf
    /\ ret = <<>>
    /\ failure = ""

(* list_all_children over the finite chains of up to MaxPages pages: page *)
(* p is empty or holds the items 10p+1, 10p+2, ..., and its nextToken is  *)
(* absent, the empty string, or names any later page                      *)
InitPaginate ==
    /\ op = "list_all_children"
    /\ \E n \in 1..MaxPages :
       \E len \in [1..n -> {0, MaxPageLen}],
          tok \in [1..n -> {None, Some(0)} \cup {Some(k) : k \in 2..n}] :
          /\ \A p \in 1..n : Truthy(tok[p]) => tok[p][1] > p
          /\ remote = [NoRemote EXCEPT !.pages.list_tasks =
                          [p \in 1..n |-> [children |-> [j \in 1..len[p] |-> 10 * p + j],
                                           nextToken |-> tok[p]]]]
    /\ Quiet

(* repeated get_task_definition calls against a remote that may fail *)
InitResolve ==
    /\ op = "get_task_definition"
    /\ remote = [NoRemote EXCEPT !.arns = {TaskDefArn(1, 1), TaskDefArn(1, 2)}]
    /\ Quiet

(* get_task_def_list: family 1 has any set of revisions, family 2 none or *)
(* two; either family may be listed first, revisions in either order      *)
InitCatalog ==
    /\ op = "get_task_def_list"
    /\ \E R1 \in SUBSET {TopRevisions + r : r \in 1..MaxRevision},
          R2 \in {{}, {1, 2}}, first \in FamilyNames, descending \in BOOLEAN :
          LET RECURSIVE Listing(_, _)
              Listing(f, R) ==
                  IF R = {} THEN <<>>
                  ELSE LET m == CHOOSE a \in R : \A b \in R :
                                    IF descending THEN a >= b ELSE a <= b
                       IN  <<TaskDefArn(f, m)>> \o Listing(f, R \ {m})
              lst == IF first = 1 THEN Listing(1, R1) \o Listing(2, R2)
                     ELSE Listing(2, R2) \o Listing(1, R1)
          IN  remote = [NoRemote EXCEPT !.pages.list_task_definitions = PagesOf(lst, PageLen)]
    /\ Quiet

(* Cluster(name) over every small cluster: up to MaxTasks tasks, each on  *)
(* host 1, on host 2 or without a host registration; host 1 is registered *)
(* and tagged 1, host 2 is registered or unknown to the control plane and *)
(* bears any tag; the compute hosts are returned in either order          *)
InitTopology ==
    /\ op = "Cluster"
    /\ \E n \in 0..MaxTasks :
       \E shapes \in [1..n -> TaskShapes], reg2 \in BOOLEAN,
          name2 \in NameTags, order \in {<<1, 2>>, <<2, 1>>} :
          remote = ClusterRemote(shapes, PageLen,
                      [a \in HostArns |->
                          Host(a, a = 1 \/ reg2, IF a = 1 THEN 1 ELSE name2,
                               Capacity(1, 2), Capacity(4, 2))],
                      order)
    /\ Quiet

(* Cluster(name) with one task on host 1, over every capacity of host 1 *)
InitResources ==
    /\ op = "Cluster"
    /\ \E cpu \in 0..MaxCapacity, mem \in 0..MaxCapacity :
       \E cpu_left \in 0..cpu, mem_left \in 0..mem :
          remote = ClusterRemote(<< [ci |-> Some(1), td |-> TaskDefArn(1, 1)] >>, PageLen,
                      [a \in HostArns |->
                          Host(a, a = 1, 1, Capacity(cpu_left, mem_left), Capacity(cpu, mem))],
                      <<1, 2>>)
    /\ Quiet

(* Cluster(name) with many tasks of one task definition on host 1: the   *)
(* task counts around each multiple of the describe_tasks chunk size      *)
InitBatch ==
    /\ op = "Cluster"
    /\ \E n \in {ChunkSize * k + d : k \in 1..MaxBatchChunks, d \in {-1, 0, 1}} :
          remote = ClusterRemote([i \in 1..n |-> [ci |-> Some(1), td |-> TaskDefArn(1, 1)]],
                      BatchPageLen,
                      [a \in HostArns |->
                          Host(a, a = 1, 1, Capacity(1, 2), Capacity(4, 2))],
                      <<1, 2>>)
    /\ Quiet

Init ==
    \/ InitPaginate
    \/ InitResolve
    \/ InitCatalog
    \/ InitTopology
    \/ InitResources
    \/ InitBatch

Next ==
    \/ CallListAllChildren
    \/ PageFirst
    \/ PageNext
    \/ PageReturn
    \/ CallGetTaskDefinition
    \/ CallGetTaskDefList
    \/ BuildCatalog
    \/ ClusterInit
    \/ AfterListTasks
    \/ DescribeTasks
    \/ ListContainerInstances
    \/ BuildTasks
    \/ ResolveDefinitions
    \/ DescribeHosts
    \/ BuildInstances

Spec == Init /\ [][Next]_vars
(***************************************************************************)
(* Properties                                                              *)
(***************************************************************************)
Ended == pc \in {"done", "failed"}

IsDescribeTasks(c) == c.api = "describe_tasks"
IsDescribeTaskDefinition(c) == c.api = "describe_task_definition"

(* what the control plane answered to a logged list call *)
RemotePage(call) ==
    remote.pages[call.api][IF call.nextToken = None THEN 1 ELSE call.nextToken[1]]

PositionIn(s, x) == CHOOSE i \in 1..Len(s) : s[i] = x

(* out is inp reordered ascending by Key, equal keys in inp's order *)
IsStableSortOf(out, inp, Key(_)) ==
    /\ Len(out) = Len(inp)
    /\ Range(out) = Range(inp)
    /\ \A i \in 1..(Len(out) - 1) :
          \/ Key(out[i]) < Key(out[i + 1])
          \/ /\ Key(out[i]) = Key(out[i + 1])
             /\ PositionIn(inp, out[i]) < PositionIn(inp, out[i + 1])

(* C1: a cluster whose task listing is empty is constructed with empty    *)
(* instances, tasks and task_families collections, and only list_tasks    *)
(* calls are issued.                                                       *)
C1_EmptyClusterHasEmptyCollections ==
    (op = "Cluster" /\ pc = "done" /\ remote.tasks = <<>>) =>
        /\ \A i \in 1..Len(calls) : calls[i].api = "list_tasks"
        /\ self.has_collections
        /\ self.instances = <<>>
        /\ self.tasks = <<>>
        /\ self.task_families = <<>>

(* C2: every compute host of a cluster with tasks gets an Instance with   *)
(* used = registered - remaining and percentage = used / registered * 100 *)
(* for CPU and MEMORY, and with percentage 0, not an error, when           *)
(* registered is 0.                                                        *)
C2_InstanceMetrics ==
    (op = "Cluster" /\ Ended /\ remote.tasks # <<>> /\ failure # "KeyError") =>
        /\ pc = "done"
        /\ \A h \in 1..Len(remote.ec2) : DictHas(cl.instances, remote.ec2[h].instance_id)
        /\ \A i \in 1..Len(cl.instances) : \A key \in ResourceKeys :
              LET inst == cl.instances[i].v
                  host == remote.hosts[inst.container_instance_arn]
                  registered == host.registered_cap[key]
                  used == registered - host.remaining[key]
                  percentage == inst.percentage_resources_used[key]
              IN  /\ inst.registered_resources[key] = registered
                  /\ inst.remaining_resources[key] = host.remaining[key]
                  /\ inst.used_resources[key] = used
                  /\ IF registered = 0 THEN percentage.num = 0
                     ELSE percentage.num * registered = used * 100 * percentage.den

(* C3: assembly of a cluster with tasks succeeds, also when a task record *)
(* has no host registration; every described task is in Cluster.tasks     *)
(* exactly once, is linked to exactly one TaskDefinition that lists it,    *)
(* and to the one Instance whose tasks list holds it, or to none.          *)
C3_TasksKeptAndLinked ==
    (op = "Cluster" /\ Ended /\ remote.tasks # <<>> /\ failure # "ZeroDivisionError") =>
        /\ pc = "done"
        /\ Len(self.tasks) = Len(remote.tasks)
        /\ Range(self.tasks) = {remote.tasks[i].taskArn : i \in 1..Len(remote.tasks)}
        /\ \A t \in Range(self.tasks) :
              LET task == DictGet(cl.tasks, t)
                  defs == {d \in 1..Len(cl.task_defs) : t \in Range(cl.task_defs[d].v.tasks)}
                  owners == {i \in 1..Len(cl.instances) : t \in Range(cl.instances[i].v.tasks)}
              IN  /\ task.definition # None
                  /\ defs = {d \in 1..Len(cl.task_defs) : cl.task_defs[d].k = task.definition[1]}
                  /\ Cardinality(defs) = 1
                  /\ Cardinality(owners) <= 1
                  /\ IF owners = {} THEN task.instance = None
                     ELSE \E i \in owners : task.instance = Some(cl.instances[i].k)

(* C4: a ContainerDefinition of TaskDefinition T is linked to exactly the *)
(* Containers bearing its name whose task was instantiated from T, and    *)
(* every Container's container_def belongs to its own task's definition.  *)
C4_ContainerLinksScopedToDefinition ==
    (op = "Cluster" /\ pc = "done" /\ self.has_collections) =>
        /\ \A d \in 1..Len(cl.task_defs) :
              \A k \in 1..Len(cl.task_defs[d].v.container_defs) :
                 LET D == cl.task_defs[d].v.container_defs[k]
                 IN  Range(D.containers) =
                        {cl.containers[c].k : c \in
                            {c \in 1..Len(cl.containers) :
                                /\ cl.containers[c].v.name = D.name
                                /\ remote.tasks[cl.containers[c].v.task].taskDefinitionArn
                                      = cl.task_defs[d].k}}
        /\ \A c \in 1..Len(cl.containers) :
              cl.containers[c].v.container_def # None =>
                 cl.containers[c].v.container_def[1].task_definition
                    = remote.tasks[cl.containers[c].v.task].taskDefinitionArn

(* C5: the identifiers listed for a cluster are described in ceil(n/100)  *)
(* describe_tasks calls, each of at most 100 identifiers, all but the     *)
(* last of exactly 100, which concatenated in call order are the listed   *)
(* identifiers in their order.                                             *)
C5_DescribeTasksInChunks ==
    op = "Cluster" =>
        LET described == SelectSeq(calls, IsDescribeTasks)
            keys == Flatten([i \in 1..Len(described) |-> described[i].keys])
            listed == [i \in 1..Len(remote.tasks) |-> remote.tasks[i].taskArn]
        IN  /\ \A i \in 1..Len(described) : Len(described[i].keys) \in 1..100
            /\ \A i \in 1..(Len(described) - 1) : Len(described[i].keys) = 100
            /\ Len(keys) <= Len(listed)
            /\ keys = SubSeq(listed, 1, Len(keys))
            /\ (pg.function = "list_container_instances" \/ Ended) =>
                  /\ keys = listed
                  /\ Len(described) * 100 >= Len(listed)
                  /\ Len(described) * 100 < Len(listed) + 100

C5_ThreeChunks ==
    /\ op = "Cluster" /\ pc = "done"
    /\ LET described == SelectSeq(calls, IsDescribeTasks)
       IN  /\ Len(described) = 3
           /\ Len(described[1].keys) = 100
           /\ Len(described[3].keys) = 1

(* C6: list_all_children issues one call per page, the first without a    *)
(* token and each later one with the non-empty token of the response      *)
(* before it, stops at the first response whose token is absent or empty, *)
(* and returns the pages' items in page order.                            *)
C6_PaginatorFollowsTokens ==
    op = "list_all_children" =>
        /\ Len(calls) <= Len(remote.pages.list_tasks)
        /\ \A i \in 1..Len(calls) :
              /\ calls[i].api = "list_tasks"
              /\ IF i = 1 THEN calls[i].nextToken = None
                 ELSE /\ Truthy(calls[i].nextToken)
                      /\ calls[i].nextToken = RemotePage(calls[i - 1]).nextToken
        /\ pc = "returned" =>
              /\ calls # <<>>
              /\ ~Truthy(RemotePage(calls[Len(calls)]).nextToken)
              /\ ret = Flatten([i \in 1..Len(calls) |-> RemotePage(calls[i]).children])

C6_SkipsToPageThreeAndStopsOnEmptyToken ==
    /\ op = "list_all_children" /\ pc = "returned"
    /\ Len(remote.pages.list_tasks) = 3
    /\ Len(calls) = 2
    /\ calls[2].nextToken = Some(3)
    /\ remote.pages.list_tasks[3].nextToken = Some(0)
    /\ Len(ret) = 2 * MaxPageLen

(* the catalog's view of the account-wide listing *)
ListedArns ==
    Flatten([p \in 1..Len(remote.pages.list_task_definitions) |->
                remote.pages.list_task_definitions[p].children])

ListedFamilies == {ListedArns[i].family : i \in 1..Len(ListedArns)}

ListedRevisions(f) ==
    {ToInt(ListedArns[i].revision) : i \in {j \in 1..Len(ListedArns) : ListedArns[j].family = f}}

LatestFive(R) == {r \in R : Cardinality({q \in R : q > r}) < 5}

(* C7: get_task_def_list returns one TaskFamily per listed family, in     *)
(* name order, whose task_defs are the min(5, |R|) highest listed         *)
(* revisions in ascending order, and describes no other revision.         *)
C7_CatalogKeepsLatestFive ==
    op = "get_task_def_list" =>
        /\ \A i \in 1..Len(calls) :
              IsDescribeTaskDefinition(calls[i]) =>
                 ToInt(calls[i].keys[1].revision)
                    \in LatestFive(ListedRevisions(calls[i].keys[1].family))
        /\ pc = "returned" =>
              /\ Len(ret) = Cardinality(ListedFamilies)
              /\ {ret[i].name : i \in 1..Len(ret)} = ListedFamilies
              /\ \A i \in 1..(Len(ret) - 1) : ret[i].name < ret[i + 1].name
              /\ \A i \in 1..Len(ret) :
                    LET tds == ret[i].task_defs
                        kept == LatestFive(ListedRevisions(ret[i].name))
                    IN  /\ Len(tds) = Cardinality(kept)
                        /\ {tds[k].revision : k \in 1..Len(tds)} = kept
                        /\ \A k \in 1..(Len(tds) - 1) : tds[k].revision < tds[k + 1].revision
                        /\ \A k \in 1..Len(tds) :
                              /\ tds[k].family = ret[i].name
                              /\ tds[k].arn = TaskDefArn(ret[i].name, tds[k].revision)

C7_SevenRevisionsCutToFive ==
    /\ op = "get_task_def_list" /\ pc = "returned"
    /\ Len(ret) = 2
    /\ ListedArns[1].family = 2
    /\ Cardinality(ListedRevisions(1)) = 7
    /\ Len(ret[1].task_defs) = 5
    /\ ret[1].task_defs[1].revision < 10
    /\ ret[1].task_defs[5].revision > 10

(* C8: in a sequence of get_task_definition calls, a call for an          *)
(* identifier that has succeeded before returns that same document        *)
(* without a remote call; a call whose remote lookup fails caches         *)
(* nothing, so the next call for the identifier goes to the remote again. *)
C8_ResolverMemoisesSuccessOnly ==
    op = "get_task_definition" =>
        /\ \A i \in 1..Len(ret) : \A j \in (i + 1)..Len(ret) :
              (ret[i].arn = ret[j].arn /\ ret[i].value # None) => ret[j].value = ret[i].value
        /\ \A arn \in remote.arns :
              LET remote_calls == {k \in 1..Len(calls) : calls[k].keys = <<arn>>}
                  before_success ==
                      {j \in 1..Len(ret) :
                          /\ ret[j].arn = arn
                          /\ \A i \in 1..(j - 1) : ret[i].arn = arn => ret[i].value = None}
              IN  /\ Cardinality(remote_calls) = Cardinality(before_success)
                  /\ Cardinality({k \in remote_calls : calls[k].ok}) <= 1
                  /\ Cardinality({k \in remote_calls : ~calls[k].ok})
                        = Cardinality({j \in 1..Len(ret) : ret[j].arn = arn /\ ret[j].value = None})

C8_FailureThenSuccessThenHit ==
    /\ op = "get_task_definition"
    /\ Len(ret) = 4
    /\ \A j \in 1..3 : ret[j].arn = TaskDefArn(1, 1)
    /\ ret[4].arn = TaskDefArn(1, 2)
    /\ ret[1].value = None
    /\ ret[2].value # None
    /\ ret[3].value = ret[2].value
    /\ Len(calls) = 3

(* C9: in an assembled cluster every TaskFamily lists its task            *)
(* definitions by ascending revision.                                      *)
C9_FamilyRevisionsAscending ==
    (op = "Cluster" /\ pc = "done" /\ self.has_collections) =>
        \A f \in 1..Len(cl.task_families) :
           LET tds == cl.task_families[f].v.task_defs
           IN  \A k \in 1..(Len(tds) - 1) :
                  ToInt(tds[k].revision) < ToInt(tds[k + 1].revision)

(* C10: an assembled cluster lists its instances by Name ascending, its   *)
(* tasks (and each Instance its own tasks) by family name ascending, equal *)
(* keys in the order of the describe results, and its task families by    *)
(* name ascending.                                                         *)
C10_CollectionsSorted ==
    (op = "Cluster" /\ pc = "done" /\ self.has_collections) =>
        LET HostName(id) == remote.ec2[CHOOSE h \in 1..Len(remote.ec2) :
                                          remote.ec2[h].instance_id = id].name
            Family(t) == remote.tasks[t].taskDefinitionArn.family
            described == [i \in 1..Len(remote.tasks) |-> remote.tasks[i].taskArn]
        IN  /\ IsStableSortOf(self.instances,
                              [h \in 1..Len(remote.ec2) |-> remote.ec2[h].instance_id],
                              HostName)
            /\ IsStableSortOf(self.tasks, described, Family)
            /\ \A i \in 1..Len(cl.instances) :
                  LET OnHost(t) == remote.tasks[t].containerInstanceArn
                                      = Some(cl.instances[i].v.container_instance_arn)
                  IN  IsStableSortOf(cl.instances[i].v.tasks,
                                     SelectSeq(described, OnHost), Family)
            /\ {self.task_families[i] : i \in 1..Len(self.task_families)}
                  = {Family(t) : t \in 1..Len(remote.tasks)}
            /\ \A i \in 1..(Len(self.task_families) - 1) :
                  self.task_families[i] < self.task_families[i + 1]

C10_TasksReorderedHostsTied ==
    /\ op = "Cluster" /\ pc = "done" /\ self.has_collections
    /\ Len(self.tasks) = MaxTasks
    /\ self.tasks[1] > self.tasks[MaxTasks]
    /\ Len(remote.ec2) = 2
    /\ remote.ec2[1].name = remote.ec2[2].name
    /\ remote.ec2[1].instance_id > remote.ec2[2].instance_id
    /\ Len(self.instances) = 2
    /\ Len(self.task_families) = 2
====
